---------------------------- MODULE Spec2Model ----------------------------
(***************************************************************************)
(* kazoo-bot: a "guess the track" Telegram bot (src/main.py), its SQLite   *)
(* persistence layer (src/db.py) and the admin panel (src/admin_web.py).   *)
(*                                                                         *)
(* Two specifications share the module:                                    *)
(*   Spec           the bot's handlers (cmd_start, cb_game, cb_restart_all)*)
(*                  interleaved at their await points with each other and  *)
(*                  with the admin panel's catalog edits;                  *)
(*   SpecBroadcast  one run of broadcasts_new_submit: validation, the      *)
(*                  stored broadcast and its files, and the fan-out loop   *)
(*                  with every transport call free to succeed or raise.    *)
(* The specifications added to them are introduced where they are defined. *)
(***************************************************************************)
EXTENDS Integers, Sequences, FiniteSets, TLC

VARIABLES
    users,          \* table users: user_id -> [username, joined_at]
    tracks,         \* table tracks: id -> [title, points, is_active]
    next_track_id,  \* AUTOINCREMENT counter of tracks
    used_tracks,    \* table used_tracks: <<user_id, track_id>> -> number of rows
    pc,             \* per handler task: where it is suspended
    t_user,         \* per handler task: cb.from_user.id (0 while idle)
    t_track,        \* per handler task: the id of the row read, _id (0 before the read)
    returned,       \* history: user -> the tracks picks returned since the user's last reset
    t_dup,          \* history, per task: its pick returned a track already in returned
    t_overlap,      \* history, per task in flight: its pick overlapped another pick of the same user
    broadcasts,     \* table broadcasts: id -> [text, sent_at]
    broadcast_files,\* table broadcast_files: the rows, in id order
    disk,           \* the files written under uploads/broadcasts
    b_pc,           \* broadcasts_new_submit: the await it is suspended at
    response,       \* broadcasts_new_submit: what it returned
    bid,            \* broadcasts_new_submit: the id create_broadcast returned
    full_text,      \* broadcasts_new_submit: its locals, named as in the code
    image_paths,
    video_paths,
    file_paths,
    recipients,     \* the list get_all_users returned (the code's users)
    idx,            \* position of uid in recipients
    i,              \* position of p in video_paths / file_paths
    cap,            \* the caption of the video being sent
    user_failed,
    caption_used,
    sent,
    failed,
    calls,          \* history: the transport calls made for the current uid, in order
    clock,          \* int(time.time())
    fs,             \* the working directory as backup and restore see it: path -> content
    root_dir,       \* whether the directory uploads exists
    tmp,            \* the files of tempfile.mkstemp that exist
    tmp_path,       \* backup / restore: the tmp_path of the last request (0: none made)
    f_response,     \* backup / restore: how the last request ended
    archive_out,    \* backup: the entries of the archive it returned, name -> content
    delivered,      \* history: user -> the tracks whose message reached the user since the last reset
    t_stale,        \* history, per task: a reset of its user completed after its read
    fresh,          \* history: user -> a reset completed and no pick read after it has marked yet
    session,        \* request.session of the panel's browser: key -> value
    admin_password, \* os.getenv("ADMIN_PASSWORD")
    auth            \* the last request answered by the login layer, and its response

gameVars == <<tracks, next_track_id, used_tracks, pc, t_user, t_track,
              returned, t_dup, t_overlap>>

bcastVars == <<broadcasts, broadcast_files, disk, b_pc, response, bid, full_text,
               image_paths, video_paths, file_paths, recipients, idx, i, cap,
               user_failed, caption_used, sent, failed, calls>>

envVars == <<clock, fs, root_dir, tmp, tmp_path, f_response, archive_out>>

histVars == <<delivered, t_stale, fresh>>

authVars == <<session, admin_password, auth>>

vars == <<users, gameVars, bcastVars, envVars, histVars, authVars>>

----------------------------------------------------------------------------
(* Bounds of the model *)

MaxTracks == 2

TrackIds == 1..MaxTracks

\* two Telegram users, and two handler tasks the dispatcher runs concurrently
UserIds == {1, 2}
Tasks == {"h1", "h2"}

\* message.from_user.username as the bot sees it, and the form fields of the
\* catalog pages; Spec keeps one value of each
Usernames == {"ann", "bob"}
TrackTitles == {<< >>, <<" ">>, <<"t">>, <<"t", " ">>}
PointValues == {0 - 1, 0, 1, 2}

----------------------------------------------------------------------------
(* Python values *)

\* Optional[str]: None is the empty tuple, the value x is <<x>>
None == << >>
Some(x) == <<x>>

\* a str is the sequence of its characters; str.strip() drops the whitespace at both ends
Whitespace == {" ", "\n", "\t"}

RECURSIVE LStrip(_)
LStrip(s) == IF s # << >> /\ Head(s) \in Whitespace THEN LStrip(Tail(s)) ELSE s

RECURSIVE RStrip(_)
RStrip(s) == IF s # << >> /\ s[Len(s)] \in Whitespace
             THEN RStrip(SubSeq(s, 1, Len(s) - 1)) ELSE s

StripNothing(s) == s

Strip(s) == RStrip(LStrip(s))

\* str.lower(), on the letters the model's file names use
LowerChar(c) == CASE c = "S" -> "s" [] c = "O" -> "o" [] c = "G" -> "g" [] OTHER -> c
Lower(s) == [j \in 1..Len(s) |-> LowerChar(s[j])]

\* up.filename.replace("/", "_").replace("\\", "_")
Sanitize(s) == [j \in 1..Len(s) |-> IF s[j] \in {"/", "\\"} THEN "_" ELSE s[j]]

\* os.path.splitext(p)[1]: from the last dot of the file name, unless only dots precede it
Dots(s) == {j \in 1..Len(s) : s[j] = "."}
LastDot(s) == CHOOSE d \in Dots(s) : \A e \in Dots(s) : e <= d
SplitExt(s) ==
    IF Dots(s) = {} \/ (\A j \in 1..(LastDot(s) - 1) : s[j] = ".")
    THEN << >> ELSE SubSeq(s, LastDot(s), Len(s))

audio_exts == {<<".", "m", "p", "3">>, <<".", "o", "g", "g">>,
               <<".", "w", "a", "v">>, <<".", "m", "4", "a">>}

----------------------------------------------------------------------------
(* src/db.py *)

\* add_user: INSERT ... ON CONFLICT(user_id) DO UPDATE
AddUserReplace(tbl, u, name, now) ==
    [x \in DOMAIN tbl \cup {u} |->
        IF x # u THEN tbl[x] ELSE [username |-> name, joined_at |-> now]]

add_user(tbl, u, name, now) ==
    [x \in DOMAIN tbl \cup {u} |->
        IF x # u THEN tbl[x]
        ELSE IF u \in DOMAIN tbl THEN [tbl[u] EXCEPT !.username = name]
        ELSE [username |-> name, joined_at |-> now]]

\* create_track: INSERT with is_active = 1, id from AUTOINCREMENT
create_track(tbl, id, title, points) ==
    [t \in DOMAIN tbl \cup {id} |->
        IF t = id THEN [title |-> title, points |-> points, is_active |-> TRUE] ELSE tbl[t]]

\* update_track: UPDATE tracks SET ..., is_active = ? WHERE id = ?
update_track(tbl, id, title, points, active) ==
    [t \in DOMAIN tbl |->
        IF t = id THEN [title |-> title, points |-> points, is_active |-> active] ELSE tbl[t]]

\* delete_track: DELETE FROM tracks WHERE id = ?
delete_track(tbl, id) == [t \in DOMAIN tbl \ {id} |-> tbl[t]]

ActiveIds(tbl) == {t \in DOMAIN tbl : tbl[t].is_active}

\* the rows of get_random_track_for_user's SELECT before ORDER BY RANDOM() LIMIT 1
EligibleReserved(tbl, used, u) ==
    {t \in ActiveIds(tbl) : used[<<u, t>>] = 0
                            /\ \A k \in Tasks : ~(pc[k] = "mark" /\ t_user[k] = u /\ t_track[k] = t)}

EligibleIgnoringMarks(tbl, used, u) == ActiveIds(tbl)

EligibleInactiveToo(tbl, used, u) == {t \in DOMAIN tbl : used[<<u, t>>] = 0}

Eligible(tbl, used, u) == {t \in ActiveIds(tbl) : used[<<u, t>>] = 0}

\* mark_track_used: INSERT OR IGNORE INTO used_tracks
InsertAlways(used, u, t) == [used EXCEPT ![<<u, t>>] = @ + 1]

mark_track_used(used, u, t) ==
    IF used[<<u, t>>] > 0 THEN used ELSE [used EXCEPT ![<<u, t>>] = 1]

\* clear_used_tracks: DELETE FROM used_tracks WHERE user_id = ?
ClearNothing(used, u) == used

ClearEveryUser(used, u) == [p \in DOMAIN used |-> 0]

clear_used_tracks(used, u) == [p \in DOMAIN used |-> IF p[1] = u THEN 0 ELSE used[p]]

----------------------------------------------------------------------------
(* src/main.py: the handlers, one action per stretch between two awaits *)

InFlight(u) == {k \in Tasks : pc[k] = "mark" /\ t_user[k] = u}

GameInit ==
    /\ users = << >>
    /\ tracks = << >>
    /\ next_track_id = 1
    /\ used_tracks = [p \in UserIds \X TrackIds |-> 0]
    /\ pc = [k \in Tasks |-> "idle"]
    /\ t_user = [k \in Tasks |-> 0]
    /\ t_track = [k \in Tasks |-> 0]
    /\ returned = [u \in UserIds |-> {}]
    /\ t_overlap = [k \in Tasks |-> FALSE]
    /\ t_dup = [k \in Tasks |-> FALSE]

\* cmd_start: add_user, then the greeting
CmdStart(u, name) ==
    /\ users' = add_user(users, u, name, clock)
    /\ UNCHANGED <<bcastVars, envVars, histVars, authVars>>
    /\ UNCHANGED <<tracks, next_track_id, used_tracks, pc, t_user, t_track,
                   returned, t_dup, t_overlap>>

\* cb_game / cb_restart_all up to the commit of add_user
CbBegin(k, u, name, data) ==
    /\ pc[k] = "idle"
    /\ users' = add_user(users, u, name, clock)
    /\ pc' = [pc EXCEPT ![k] = IF data \in {"restart", "restart_all"} THEN "clear" ELSE "read"]
    /\ t_user' = [t_user EXCEPT ![k] = u]
    /\ UNCHANGED <<bcastVars, envVars, histVars, authVars>>
    /\ UNCHANGED <<tracks, next_track_id, used_tracks, t_track, returned, t_dup, t_overlap>>

\* await clear_used_tracks(cb.from_user.id)
Clear(k) ==
    /\ pc[k] = "clear"
    /\ used_tracks' = clear_used_tracks(used_tracks, t_user[k])
    /\ pc' = [pc EXCEPT ![k] = "read"]
    /\ returned' = [returned EXCEPT ![t_user[k]] = {}]
    /\ UNCHANGED <<bcastVars, envVars, authVars>>
    /\ UNCHANGED <<users, tracks, next_track_id, t_user, t_track, t_dup, t_overlap>>

ClearStep(k) == Clear(k) /\ UNCHANGED histVars

\* track = await get_random_track_for_user(user_id): a row was found
ReadTrack(k, t) ==
    /\ pc[k] = "read"
    /\ t \in Eligible(tracks, used_tracks, t_user[k])
    /\ t_track' = [t_track EXCEPT ![k] = t]
    /\ pc' = [pc EXCEPT ![k] = "mark"]
    /\ t_overlap' = [j \in Tasks |->
          IF InFlight(t_user[k]) # {} /\ (j = k \/ j \in InFlight(t_user[k]))
          THEN TRUE ELSE t_overlap[j]]
    /\ UNCHANGED <<bcastVars, envVars, histVars, authVars>>
    /\ UNCHANGED <<users, tracks, next_track_id, used_tracks, t_user, returned, t_dup>>

\* track = await get_random_track_for_user(user_id): no row (if not track)
ReadNone(k) ==
    /\ pc[k] = "read"
    /\ Eligible(tracks, used_tracks, t_user[k]) = {}
    /\ pc' = [pc EXCEPT ![k] = "congrats"]
    /\ UNCHANGED <<bcastVars, envVars, histVars, authVars>>
    /\ UNCHANGED <<users, tracks, next_track_id, used_tracks, t_user, t_track,
                   returned, t_dup, t_overlap>>

\* await mark_track_used(user_id, _id)
Mark(k) ==
    /\ pc[k] = "mark"
    /\ used_tracks' = mark_track_used(used_tracks, t_user[k], t_track[k])
    /\ returned' = [returned EXCEPT ![t_user[k]] = @ \cup {t_track[k]}]
    /\ t_dup' = [t_dup EXCEPT ![k] = t_track[k] \in returned[t_user[k]]]
    /\ t_overlap' = [t_overlap EXCEPT ![k] = FALSE]
    /\ pc' = [pc EXCEPT ![k] = "send"]
    /\ UNCHANGED <<bcastVars, envVars, authVars>>
    /\ UNCHANGED <<users, tracks, next_track_id, t_user, t_track>>

MarkStep(k) == Mark(k) /\ UNCHANGED histVars

\* the rest of the handler: message.answer (track or congratulation; on an
\* exception the apology), then cb.answer(); none of it touches the store
Answer(k) ==
    /\ pc[k] \in {"send", "congrats"}
    /\ pc' = [pc EXCEPT ![k] = "idle"]
    /\ t_user' = [t_user EXCEPT ![k] = 0]
    /\ t_track' = [t_track EXCEPT ![k] = 0]
    /\ t_dup' = [t_dup EXCEPT ![k] = FALSE]
    /\ UNCHANGED <<bcastVars, envVars, authVars>>
    /\ UNCHANGED <<users, tracks, next_track_id, used_tracks, returned, t_overlap>>

Finish(k) == Answer(k) /\ UNCHANGED histVars

----------------------------------------------------------------------------
(* src/admin_web.py: the session and the login layer *)

\* request.session, a dict, as its set of <<key, value>> pairs;
\* request.session.get(key)
session_get(sess, key) ==
    IF \E kv \in sess : kv[1] = key
    THEN Some((CHOOSE kv \in sess : kv[1] = key)[2])
    ELSE None

\* get_admin_password: os.getenv("ADMIN_PASSWORD", ""), raising when it is empty
Raises == "RuntimeError"
get_admin_password(env) == IF env = << >> THEN Raises ELSE env

\* ensure_admin: the redirect to the login page, or None
EnsureNobody(sess) == None

ensure_admin(sess) ==
    IF session_get(sess, "is_admin") # Some(TRUE) THEN Some("/admin_web/login") ELSE None

----------------------------------------------------------------------------
(* src/admin_web.py: the catalog edits *)

\* add_track -> create_track, unless the stripped title is empty
AddTrack(title, points) ==
    /\ ensure_admin(session) = None
    /\ Strip(title) # << >>
    /\ next_track_id <= MaxTracks
    /\ tracks' = create_track(tracks, next_track_id, Strip(title), points)
    /\ next_track_id' = next_track_id + 1
    /\ UNCHANGED <<bcastVars, envVars, histVars, authVars>>
    /\ UNCHANGED <<users, used_tracks, pc, t_user, t_track, returned, t_dup, t_overlap>>

\* edit_track -> get_track, update_track
EditTrack(id, title, points, active) ==
    /\ ensure_admin(session) = None
    /\ id \in DOMAIN tracks
    /\ tracks' = update_track(tracks, id, Strip(title), points, active)
    /\ UNCHANGED <<bcastVars, envVars, histVars, authVars>>
    /\ UNCHANGED <<users, next_track_id, used_tracks, pc, t_user, t_track,
                   returned, t_dup, t_overlap>>

\* remove_track -> delete_track
RemoveTrack(id) ==
    /\ ensure_admin(session) = None
    /\ id \in DOMAIN tracks
    /\ tracks' = delete_track(tracks, id)
    /\ UNCHANGED <<bcastVars, envVars, histVars, authVars>>
    /\ UNCHANGED <<users, next_track_id, used_tracks, pc, t_user, t_track,
                   returned, t_dup, t_overlap>>

\* the bot's handlers, for the usernames given
BotNext(names) ==
    \/ \E u \in UserIds, name \in names : CmdStart(u, name)
    \/ \E k \in Tasks, u \in UserIds, name \in names,
          data \in {"go", "next", "restart", "restart_all"} : CbBegin(k, u, name, data)
    \/ \E k \in Tasks : ClearStep(k)
    \/ \E k \in Tasks, t \in TrackIds : ReadTrack(k, t)
    \/ \E k \in Tasks : ReadNone(k)
    \/ \E k \in Tasks : MarkStep(k)
    \/ \E k \in Tasks : Finish(k)

\* the catalog pages, for the form values given
CatalogNext(titles, points) ==
    \/ \E title \in titles, p \in points : AddTrack(title, p)
    \/ \E id \in TrackIds, title \in titles, p \in points, active \in BOOLEAN :
          EditTrack(id, title, p, active)
    \/ \E id \in TrackIds : RemoveTrack(id)

GameNext == BotNext({"ann"}) \/ CatalogNext({<<"t">>}, {1})

----------------------------------------------------------------------------
(* src/db.py: users, broadcasts, broadcast_files *)

NULL == "NULL"
Now == "now"

\* the rows of a SELECT without ORDER BY on an INTEGER PRIMARY KEY: in key order
RECURSIVE Ascending(_)
Ascending(S) ==
    IF S = {} THEN << >>
    ELSE LET m == CHOOSE x \in S : \A y \in S : x <= y
         IN <<m>> \o Ascending(S \ {m})

\* get_all_users: SELECT user_id FROM users
UsersOrPlaceholder(tbl) == IF DOMAIN tbl = {} THEN <<0>> ELSE Ascending(DOMAIN tbl)

get_all_users(tbl) == Ascending(DOMAIN tbl)

\* the id AUTOINCREMENT gives the next row of broadcasts
NewBroadcastId(tbl) ==
    IF DOMAIN tbl = {} THEN 1
    ELSE 1 + (CHOOSE x \in DOMAIN tbl : \A y \in DOMAIN tbl : y <= x)

\* create_broadcast: INSERT INTO broadcasts (text, created_at); sent_at stays NULL
create_broadcast(tbl, id, text) ==
    [b \in DOMAIN tbl \cup {id} |->
        IF b = id THEN [text |-> text, sent_at |-> NULL] ELSE tbl[b]]

\* mark_broadcast_sent: UPDATE broadcasts SET sent_at = ? WHERE id = ?
MarkNothing(tbl, id) == tbl

mark_broadcast_sent(tbl, id) ==
    [b \in DOMAIN tbl |-> IF b = id THEN [tbl[b] EXCEPT !.sent_at = Now] ELSE tbl[b]]

\* create_broadcast_file, once per saved path: the rows appended in order
create_broadcast_files(rows, b, kind, paths) ==
    rows \o [j \in 1..Len(paths) |->
                [id |-> Len(rows) + j, broadcast_id |-> b, kind |-> kind, path |-> paths[j]]]

----------------------------------------------------------------------------
(* src/admin_web.py: broadcasts_new_submit *)

MaxUploads == 3
MaxRecipients == 3

\* an UploadFile: its filename and its bytes
Upload(name, data) == [filename |-> name, data |-> data]

ImageUploads == {Upload(<<"a">>, <<"x">>), Upload(<<"b">>, <<"x">>), Upload(<< >>, <<"x">>)}
VideoUploads == {Upload(<<"v">>, <<"x">>), Upload(<<"/", "w">>, <<"x">>), Upload(<<"u">>, << >>)}
FileUploads == {Upload(<<"s", ".", "m", "p", "3">>, <<"x">>),
                Upload(<<"d", ".", "p", "d", "f">>, <<"x">>),
                Upload(<<"S", ".", "O", "G", "G">>, <<"x">>)}

Titles == {<< >>, <<" ">>, <<"T">>, <<" ", "T", " ">>}
Bodies == {<< >>, <<"\n">>, <<"B">>, <<"B", "\n">>}

\* os.path.join("uploads", "broadcasts", str(broadcast_id), kind, filename)
PathOf(b, kind, name) == [bid |-> b, kind |-> kind, name |-> name]
NoPath == [bid |-> 0, kind |-> "", name |-> << >>]

\* _save_files_for_broadcast: uploads without a filename or without content are skipped
Accepted(files) == SelectSeq(files, LAMBDA up : up.filename # << >> /\ up.data # << >>)

saved_paths(b, files, kind) ==
    [j \in 1..Len(Accepted(files)) |-> PathOf(b, kind, Sanitize(Accepted(files)[j].filename))]

\* full_text from the stripped title and body
FullTextOneNewline(title, body) ==
    IF title # << >> /\ body # << >>
    THEN Strip(title \o <<"\n">> \o body)
    ELSE Strip(IF title # << >> THEN title ELSE body)

FullText(title, body) ==
    IF title # << >> /\ body # << >>
    THEN Strip(title \o <<"\n", "\n">> \o body)
    ELSE Strip(IF title # << >> THEN title ELSE body)

\* one transport call as the history keeps it
Item(path, caption) == [path |-> path, caption |-> caption]
Call(api, step, items, ok) == [api |-> api, step |-> step, items |-> items, ok |-> ok]

\* the await the loop body reaches next, given caption_used
TextStop(cu, ip, vp, fp, ft) ==
    IF ~cu /\ ~(ip # << >> \/ vp # << >> \/ fp # << >>) /\ ft # << >>
    THEN "text" ELSE "tally"
FilesStop(cu, ip, vp, fp, ft) == IF fp # << >> THEN "file" ELSE TextStop(cu, ip, vp, fp, ft)
VideosStop(cu, ip, vp, fp, ft) == IF vp # << >> THEN "video" ELSE FilesStop(cu, ip, vp, fp, ft)
PhotosStop(cu, ip, vp, fp, ft) == IF ip # << >> THEN "photo" ELSE VideosStop(cu, ip, vp, fp, ft)

AfterPhotos(cu) == VideosStop(cu, image_paths, video_paths, file_paths, full_text)
AfterVideos(cu) == FilesStop(cu, image_paths, video_paths, file_paths, full_text)
AfterFiles(cu) == TextStop(cu, image_paths, video_paths, file_paths, full_text)

\* caption=full_text or None
CaptionOrNone(ft) == IF ft # << >> THEN Some(ft) ELSE None

\* the media list of send_media_group: cap = full_text if i == 0 and full_text else None
AlbumCaptionEach(paths, ft) == [j \in 1..Len(paths) |-> Item(paths[j], CaptionOrNone(ft))]

Album(paths, ft) ==
    [j \in 1..Len(paths) |-> Item(paths[j], IF j = 1 /\ ft # << >> THEN Some(ft) ELSE None)]

\* cap of a video or a file: if full_text and not caption_used and i == 0
ItemCaptionFirst(ft, cu, pos) == IF ft # << >> /\ pos = 1 THEN Some(ft) ELSE None

ItemCaption(ft, cu, pos) == IF ft # << >> /\ ~cu /\ pos = 1 THEN Some(ft) ELSE None

\* where a raised send_video leads: the except branch tries send_document
VideoRaisedSkip(last, cu) == IF last THEN AfterVideos(cu) ELSE "video"

VideoRaised(last, cu) == "video_doc"

\* user_failed after send_video raised: untouched until the fallback has failed too
FailedOnVideoRaise(uf) == TRUE

FailedAfterVideoRaised(uf) == uf

\* if user_failed: failed += 1 else: sent += 1
TallyOnlySent(uf, s, f) == IF uf THEN <<s, f>> ELSE <<s + 1, f>>

Tallied(uf, s, f) == IF uf THEN <<s, f + 1>> ELSE <<s + 1, f>>

BroadcastIdle ==
    /\ broadcasts = << >>
    /\ broadcast_files = << >>
    /\ disk = {}
    /\ b_pc = "idle"
    /\ response = "none"
    /\ bid = 0
    /\ full_text = << >>
    /\ image_paths = << >>
    /\ video_paths = << >>
    /\ file_paths = << >>
    /\ recipients = << >>
    /\ idx = 1
    /\ i = 1
    /\ cap = None
    /\ user_failed = FALSE
    /\ caption_used = FALSE
    /\ sent = 0
    /\ failed = 0
    /\ calls = << >>

\* the request is refused: nothing to send
SubmitEmpty(title, text, images, videos, files) ==
    /\ ensure_admin(session) = None
    /\ b_pc = "idle"
    /\ Strip(title) = << >> /\ Strip(text) = << >>
    /\ ~(images # << >> \/ videos # << >> \/ files # << >>)
    /\ response' = "error_empty"
    /\ b_pc' = "done"
    /\ UNCHANGED <<envVars, histVars, authVars>>
    /\ UNCHANGED <<users, gameVars, broadcasts, broadcast_files, disk, bid, full_text,
                   image_paths, video_paths, file_paths, recipients, idx, i, cap,
                   user_failed, caption_used, sent, failed, calls>>

\* the request is refused: get_all_users returned no user
SubmitNoUsers(title, text, images, videos, files) ==
    /\ ensure_admin(session) = None
    /\ b_pc = "idle"
    /\ ~(/\ Strip(title) = << >> /\ Strip(text) = << >>
         /\ ~(images # << >> \/ videos # << >> \/ files # << >>))
    /\ get_all_users(users) = << >>
    /\ response' = "error_no_users"
    /\ b_pc' = "done"
    /\ UNCHANGED <<envVars, histVars, authVars>>
    /\ UNCHANGED <<users, gameVars, broadcasts, broadcast_files, disk, bid, full_text,
                   image_paths, video_paths, file_paths, recipients, idx, i, cap,
                   user_failed, caption_used, sent, failed, calls>>

\* create_broadcast, the three _save_files_for_broadcast, and the loop up to its first await
Submit(title, text, images, videos, files) ==
    /\ ensure_admin(session) = None
    /\ b_pc = "idle"
    /\ ~(/\ Strip(title) = << >> /\ Strip(text) = << >>
         /\ ~(images # << >> \/ videos # << >> \/ files # << >>))
    /\ get_all_users(users) # << >>
    /\ LET ft == FullText(Strip(title), Strip(text))
           b == NewBroadcastId(broadcasts)
           ip == IF images # << >> THEN saved_paths(b, images, "photo") ELSE << >>
           vp == IF videos # << >> THEN saved_paths(b, videos, "video") ELSE << >>
           fp == IF files # << >> THEN saved_paths(b, files, "file") ELSE << >>
       IN /\ full_text' = ft
          /\ recipients' = get_all_users(users)
          /\ bid' = b
          /\ broadcasts' = create_broadcast(broadcasts, b, ft)
          /\ image_paths' = ip
          /\ video_paths' = vp
          /\ file_paths' = fp
          /\ broadcast_files' =
                create_broadcast_files(
                    create_broadcast_files(
                        create_broadcast_files(broadcast_files, b, "photo", ip),
                        b, "video", vp),
                    b, "file", fp)
          /\ disk' = disk \cup {ip[j] : j \in 1..Len(ip)} \cup {vp[j] : j \in 1..Len(vp)}
                          \cup {fp[j] : j \in 1..Len(fp)}
          /\ b_pc' = PhotosStop(FALSE, ip, vp, fp, ft)
    /\ sent' = 0
    /\ failed' = 0
    /\ idx' = 1
    /\ i' = 1
    /\ user_failed' = FALSE
    /\ caption_used' = FALSE
    /\ UNCHANGED <<envVars, histVars, authVars>>
    /\ UNCHANGED <<users, gameVars, response, cap, calls>>

\* 1) send_photo, or send_media_group for two and more
PhotoStep(ok) ==
    /\ b_pc = "photo"
    /\ IF Len(image_paths) = 1
       THEN /\ calls' = Append(calls, Call("send_photo", "photo",
                               <<Item(image_paths[1], CaptionOrNone(full_text))>>, ok))
            /\ caption_used' = (caption_used \/ (ok /\ full_text # << >>))
            /\ b_pc' = AfterPhotos(caption_used \/ (ok /\ full_text # << >>))
       ELSE /\ calls' = Append(calls, Call("send_media_group", "photo",
                               Album(image_paths, full_text), ok))
            /\ caption_used' = (caption_used \/ full_text # << >>)
            /\ b_pc' = AfterPhotos(caption_used \/ full_text # << >>)
    /\ user_failed' = (user_failed \/ ~ok)
    /\ i' = 1
    /\ UNCHANGED <<envVars, histVars, authVars>>
    /\ UNCHANGED <<users, gameVars, broadcasts, broadcast_files, disk, response, bid,
                   full_text, image_paths, video_paths, file_paths, recipients, idx, cap,
                   sent, failed>>

\* 2) send_video for video_paths[i]
VideoStep(ok) ==
    /\ b_pc = "video"
    /\ LET c == ItemCaption(full_text, caption_used, i)
           cu == caption_used \/ c # None
           last == i = Len(video_paths)
       IN /\ calls' = Append(calls, Call("send_video", "video", <<Item(video_paths[i], c)>>, ok))
          /\ caption_used' = cu
          /\ IF ok
             THEN /\ b_pc' = IF last THEN AfterVideos(cu) ELSE "video"
                  /\ i' = IF last THEN 1 ELSE i + 1
                  /\ cap' = None
                  /\ user_failed' = user_failed
             ELSE /\ b_pc' = VideoRaised(last, cu)
                  /\ i' = IF b_pc' = "video_doc" THEN i ELSE IF last THEN 1 ELSE i + 1
                  /\ cap' = IF b_pc' = "video_doc" THEN c ELSE None
                  /\ user_failed' = FailedAfterVideoRaised(user_failed)
    /\ UNCHANGED <<envVars, histVars, authVars>>
    /\ UNCHANGED <<users, gameVars, broadcasts, broadcast_files, disk, response, bid,
                   full_text, image_paths, video_paths, file_paths, recipients, idx,
                   sent, failed>>

\* the fallback: send_document for the same video with the same caption
VideoDocStep(ok) ==
    /\ b_pc = "video_doc"
    /\ calls' = Append(calls, Call("send_document", "video_doc", <<Item(video_paths[i], cap)>>, ok))
    /\ user_failed' = (user_failed \/ ~ok)
    /\ b_pc' = IF i = Len(video_paths) THEN AfterVideos(caption_used) ELSE "video"
    /\ i' = IF i = Len(video_paths) THEN 1 ELSE i + 1
    /\ cap' = None
    /\ UNCHANGED <<envVars, histVars, authVars>>
    /\ UNCHANGED <<users, gameVars, broadcasts, broadcast_files, disk, response, bid,
                   full_text, image_paths, video_paths, file_paths, recipients, idx,
                   caption_used, sent, failed>>

\* 3) send_audio or send_document for file_paths[i]
FileStep(ok) ==
    /\ b_pc = "file"
    /\ LET c == ItemCaption(full_text, caption_used, i)
           cu == caption_used \/ c # None
           ext == Lower(SplitExt(file_paths[i].name))
           api == IF ext \in audio_exts THEN "send_audio" ELSE "send_document"
       IN /\ calls' = Append(calls, Call(api, "file", <<Item(file_paths[i], c)>>, ok))
          /\ caption_used' = cu
          /\ b_pc' = IF i = Len(file_paths) THEN AfterFiles(cu) ELSE "file"
    /\ i' = IF i = Len(file_paths) THEN 1 ELSE i + 1
    /\ user_failed' = (user_failed \/ ~ok)
    /\ UNCHANGED <<envVars, histVars, authVars>>
    /\ UNCHANGED <<users, gameVars, broadcasts, broadcast_files, disk, response, bid,
                   full_text, image_paths, video_paths, file_paths, recipients, idx, cap,
                   sent, failed>>

\* 4) send_message when there is no media at all
TextStep(ok) ==
    /\ b_pc = "text"
    /\ calls' = Append(calls, Call("send_message", "text", <<Item(NoPath, Some(full_text))>>, ok))
    /\ user_failed' = (user_failed \/ ~ok)
    /\ b_pc' = "tally"
    /\ UNCHANGED <<envVars, histVars, authVars>>
    /\ UNCHANGED <<users, gameVars, broadcasts, broadcast_files, disk, response, bid,
                   full_text, image_paths, video_paths, file_paths, recipients, idx, i, cap,
                   caption_used, sent, failed>>

\* the end of the loop body, and the next uid up to its first await
Tally ==
    /\ b_pc = "tally"
    /\ sent' = Tallied(user_failed, sent, failed)[1]
    /\ failed' = Tallied(user_failed, sent, failed)[2]
    /\ user_failed' = FALSE
    /\ caption_used' = FALSE
    /\ calls' = << >>
    /\ IF idx < Len(recipients)
       THEN /\ idx' = idx + 1
            /\ b_pc' = PhotosStop(FALSE, image_paths, video_paths, file_paths, full_text)
       ELSE /\ idx' = idx
            /\ b_pc' = "stamp"
    /\ UNCHANGED <<envVars, histVars, authVars>>
    /\ UNCHANGED <<users, gameVars, broadcasts, broadcast_files, disk, response, bid,
                   full_text, image_paths, video_paths, file_paths, recipients, i, cap>>

\* await mark_broadcast_sent(bid), then the redirect with the counters
Stamp ==
    /\ b_pc = "stamp"
    /\ broadcasts' = mark_broadcast_sent(broadcasts, bid)
    /\ response' = "redirect"
    /\ b_pc' = "done"
    /\ UNCHANGED <<envVars, histVars, authVars>>
    /\ UNCHANGED <<users, gameVars, broadcast_files, disk, bid, full_text, image_paths,
                   video_paths, file_paths, recipients, idx, i, cap, user_failed,
                   caption_used, sent, failed, calls>>

BroadcastNext ==
    \/ /\ b_pc = "idle"
       /\ \E title \in Titles, text \in Bodies, np \in 0..MaxUploads, nv \in 0..MaxUploads,
             nf \in 0..MaxUploads :
             /\ np + nv + nf <= MaxUploads
             /\ \E images \in [1..np -> ImageUploads], videos \in [1..nv -> VideoUploads],
                   files \in [1..nf -> FileUploads] :
                   \/ SubmitEmpty(title, text, images, videos, files)
                   \/ SubmitNoUsers(title, text, images, videos, files)
                   \/ Submit(title, text, images, videos, files)
    \/ \E ok \in BOOLEAN : PhotoStep(ok)
    \/ \E ok \in BOOLEAN : VideoStep(ok)
    \/ \E ok \in BOOLEAN : VideoDocStep(ok)
    \/ \E ok \in BOOLEAN : FileStep(ok)
    \/ \E ok \in BOOLEAN : TextStep(ok)
    \/ Tally
    \/ Stamp

----------------------------------------------------------------------------
(* The two specifications *)

\* nothing delivered, no reset made
HistIdle ==
    /\ delivered = [u \in UserIds |-> {}]
    /\ t_stale = [k \in Tasks |-> FALSE]
    /\ fresh = [u \in UserIds |-> FALSE]

\* the panel's browser has logged in with the configured password
LoggedIn ==
    /\ session = {<<"is_admin", TRUE>>}
    /\ admin_password = <<"p">>
    /\ auth = [op |-> "none", password |-> << >>, response |-> "none"]

\* the clock at its start, the working directory with an empty uploads
EnvIdle ==
    /\ clock = 0
    /\ fs = << >>
    /\ root_dir = TRUE
    /\ tmp = {}
    /\ tmp_path = 0
    /\ f_response = "none"
    /\ archive_out = << >>

Init == GameInit /\ BroadcastIdle /\ EnvIdle /\ HistIdle /\ LoggedIn

Next == GameNext

Spec == Init /\ [][Next]_vars

\* the panel is used with any number of users already registered by the bot
BroadcastInit ==
    /\ \E n \in 0..MaxRecipients :
          users = [u \in 1..n |-> [username |-> "ann", joined_at |-> 0]]
    /\ tracks = << >>
    /\ next_track_id = 1
    /\ used_tracks = [p \in UserIds \X TrackIds |-> 0]
    /\ pc = [k \in Tasks |-> "idle"]
    /\ t_user = [k \in Tasks |-> 0]
    /\ t_track = [k \in Tasks |-> 0]
    /\ returned = [u \in UserIds |-> {}]
    /\ t_overlap = [k \in Tasks |-> FALSE]
    /\ t_dup = [k \in Tasks |-> FALSE]
    /\ BroadcastIdle
    /\ EnvIdle
    /\ HistIdle
    /\ LoggedIn

SpecBroadcast == BroadcastInit /\ [][BroadcastNext]_vars

----------------------------------------------------------------------------
(* Track Selection Engine: pickNextTrack = ReadTrack/ReadNone then MarkStep, *)
(* resetCycle = ClearStep                                                    *)

Rows(u) == {t \in TrackIds : used_tracks[<<u, t>>] > 0}

\* C1: picks of one user that do not overlap return pairwise distinct tracks
\* between two resets (a pick repeats a track only if it overlapped another
\* pick of the user), and a read made when every active track has been
\* returned gives "cycle complete" and adds no used_tracks row.
C1_NoRepeatStep ==
    \A k \in Tasks :
        (pc[k] = "mark" /\ pc'[k] = "send" /\ ~t_overlap[k])
        => (~t_dup'[k] /\ t_track[k] \notin returned[t_user[k]])

C1_ExhaustedStep ==
    \A k \in Tasks :
        (pc[k] = "read" /\ pc'[k] # "read"
         /\ ActiveIds(tracks) \subseteq returned[t_user[k]])
        => (pc'[k] = "congrats" /\ used_tracks' = used_tracks)

C1_DistinctUntilExhausted == [][C1_NoRepeatStep /\ C1_ExhaustedStep]_vars

C1_Witness ==
    \E k \in Tasks :
        /\ pc[k] = "congrats"
        /\ Cardinality(returned[t_user[k]]) >= 2
        /\ returned[t_user[k]] = ActiveIds(tracks)

\* C2: the reset leaves the user without used_tracks rows, and until a pick
\* of the user returns again the read that follows has every active track
\* to choose from, the ones returned before the reset included.
C2_ResetStep ==
    \A k \in Tasks :
        (pc[k] = "clear" /\ pc'[k] = "read")
        => /\ Rows(t_user[k])' = {}
           /\ InFlight(t_user[k]) = {}
                => Eligible(tracks', used_tracks', t_user[k]) = ActiveIds(tracks')

C2_FreshInv ==
    \A k \in Tasks :
        (pc[k] = "read" /\ returned[t_user[k]] = {})
        => Eligible(tracks, used_tracks, t_user[k]) = ActiveIds(tracks)

C2_ResetMakesAllEligible == [](C2_FreshInv) /\ [][C2_ResetStep]_vars

C2_Witness ==
    \E k \in Tasks, j \in Tasks :
        /\ k # j /\ t_user[k] = t_user[j]
        /\ pc[j] = "send" /\ pc[k] = "mark" /\ ~t_overlap[k]
        /\ t_track[k] = t_track[j]
        /\ t_track[k] \notin returned[t_user[k]]

\* C3: used_tracks holds every (user, track) pair at most once, and marking a
\* pair that is present changes nothing.
C3_UniqueInv == \A p \in UserIds \X TrackIds : used_tracks[p] <= 1

C3_MarkAgainStep ==
    \A k \in Tasks :
        (pc[k] = "mark" /\ pc'[k] = "send" /\ used_tracks[<<t_user[k], t_track[k]>>] > 0)
        => used_tracks' = used_tracks

C3_UniquePair == [](C3_UniqueInv) /\ [][C3_MarkAgainStep]_vars

C3_Witness ==
    \E k \in Tasks :
        pc[k] = "send" /\ t_dup[k] /\ used_tracks[<<t_user[k], t_track[k]>>] = 1

\* C4: nothing holds back a read while another pick of the same user is
\* between its read and its mark: the track that pick chose can be read
\* again, so both picks return it.
C4_NoLock ==
    \A k \in Tasks, j \in Tasks :
        (/\ k # j /\ pc[k] = "read" /\ pc[j] = "mark" /\ t_user[k] = t_user[j]
         /\ t_track[j] \in ActiveIds(tracks)
         /\ used_tracks[<<t_user[j], t_track[j]>>] = 0)
        => ENABLED ReadTrack(k, t_track[j])

C4_Witness ==
    \E k \in Tasks, j \in Tasks :
        /\ k # j /\ t_user[k] = t_user[j] /\ t_track[k] = t_track[j]
        /\ pc[k] = "send" /\ pc[j] = "send"
        /\ t_dup[j]


----------------------------------------------------------------------------
(* src/admin_web.py: backup and restore. SpecFiles is the two handlers on   *)
(* the working directory; a path is the sequence of its characters          *)

MaxEntries == 2

\* the names tempfile.mkstemp can give
TmpNames == {1, 2}

Root == <<"u", "p", "l", "o", "a", "d", "s">>

\* str.startswith
StartsWith(s, p) == Len(s) >= Len(p) /\ SubSeq(s, 1, Len(p)) = p

\* str.split("/") and "/".join
RECURSIVE SplitPath(_)
SplitPath(s) ==
    IF \A j \in DOMAIN s : s[j] # "/" THEN <<s>>
    ELSE LET d == CHOOSE j \in DOMAIN s : s[j] = "/" /\ \A m \in 1..(j - 1) : s[m] # "/"
         IN <<SubSeq(s, 1, d - 1)>> \o SplitPath(SubSeq(s, d + 1, Len(s)))

RECURSIVE JoinPath(_)
JoinPath(cs) ==
    IF cs = << >> THEN << >>
    ELSE IF Len(cs) = 1 THEN cs[1]
    ELSE cs[1] \o <<"/">> \o JoinPath(Tail(cs))

\* os.path.normpath of a relative path: "" and "." components dropped, ".."
\* cancels the component before it and stays when there is none
RECURSIVE NormComps(_, _)
NormComps(cs, new) ==
    IF cs = << >> THEN new
    ELSE IF Head(cs) \in {<< >>, <<".">>} THEN NormComps(Tail(cs), new)
    ELSE IF Head(cs) # <<".", ".">> \/ new = << >> \/ new[Len(new)] = <<".", ".">>
         THEN NormComps(Tail(cs), Append(new, Head(cs)))
    ELSE NormComps(Tail(cs), SubSeq(new, 1, Len(new) - 1))

normpath(s) ==
    IF NormComps(SplitPath(s), << >>) = << >> THEN <<".">>
    ELSE JoinPath(NormComps(SplitPath(s), << >>))

\* where zf.extract(member, ".") writes: the "", "." and ".." components of
\* the entry name are dropped, the rest is joined under the working directory
extract_target(name) ==
    JoinPath(SelectSeq(SplitPath(name), LAMBDA c : c \notin {<< >>, <<".">>, <<".", ".">>}))

\* if not member_path.startswith("uploads"): continue
passes_guard(name) == StartsWith(normpath(name), Root)

\* the files os.walk(base) finds: those below the directory base
WalkByPrefix(files, base) == {p \in DOMAIN files : StartsWith(p, base)}

walk(files, base) ==
    {p \in DOMAIN files : Len(SplitPath(p)) >= 2 /\ SplitPath(p)[1] = base}

\* fd, tmp_path = tempfile.mkstemp(suffix=".zip"): a name not in use
mkstemp(T) == CHOOSE n \in TmpNames : n \notin T /\ \A m \in TmpNames : m < n => m \in T

\* the members of an uploaded archive
Entry(name, data) == [name |-> name, data |-> data]

EntryNames == {<<"u", "p", "l", "o", "a", "d", "s", "/", "a">>,
               <<"u", "p", "l", "o", "a", "d", "s", "/", "b">>,
               <<".", ".", "/", ".", ".", "/", "e", "t", "c", "/", "p", "a", "s", "s", "w", "d">>,
               <<"u", "p", "l", "o", "a", "d", "s", "2", "/", "a">>,
               <<"a", "/", ".", ".", "/", "u", "p", "l", "o", "a", "d", "s", "/", "a">>,
               <<"u", "p", "l", "o", "a", "d", "s", "/", ".", ".", "/", "b">>}

Entries == {Entry(n, "x") : n \in EntryNames} \cup {Entry(Root \o <<"/", "a">>, "y")}

\* the upload restore receives: its filename, and its bytes, which either
\* are a zip with the members given or are not a zip at all
Archive(filename, is_zip, members) ==
    [filename |-> filename, is_zip |-> is_zip, members |-> members]

\* the loop over zf.infolist(), its first n members done
RECURSIVE extracted(_, _, _)
extracted(files, members, n) ==
    IF n = 0 THEN files
    ELSE LET before == extracted(files, members, n - 1)
             m == members[n]
         IN IF ~passes_guard(m.name) THEN before
            ELSE [p \in DOMAIN before \cup {extract_target(m.name)} |->
                     IF p = extract_target(m.name) THEN m.data ELSE before[p]]

\* backup: the archive of everything under uploads
Backup ==
    /\ ensure_admin(session) = None
    /\ tmp # TmpNames
    /\ root_dir' = TRUE
    /\ tmp_path' = mkstemp(tmp)
    /\ tmp' = tmp \cup {mkstemp(tmp)}
    /\ archive_out' = [p \in walk(fs, Root) |-> fs[p]]
    /\ f_response' = "backup_ok"
    /\ UNCHANGED <<histVars, authVars, users, gameVars, bcastVars, clock, fs>>

\* restore: no archive.filename
RestoreMissing(up) ==
    /\ ensure_admin(session) = None
    /\ up.filename = << >>
    /\ f_response' = "restore_missing"
    /\ tmp_path' = 0
    /\ archive_out' = << >>
    /\ UNCHANGED <<histVars, authVars, users, gameVars, bcastVars, clock, fs, root_dir, tmp>>

\* restore: zipfile.ZipFile raises on bytes that are not a zip
RestoreBadZip(up) ==
    /\ ensure_admin(session) = None
    /\ up.filename # << >>
    /\ ~up.is_zip
    /\ tmp # TmpNames
    /\ root_dir' = TRUE
    /\ tmp_path' = mkstemp(tmp)
    /\ tmp' = tmp \cup {mkstemp(tmp)}
    /\ f_response' = "restore_error"
    /\ archive_out' = << >>
    /\ UNCHANGED <<histVars, authVars, users, gameVars, bcastVars, clock, fs>>

\* restore: zf.extract raises at member n, the members before it are done
RestoreExtractError(up, n) ==
    /\ ensure_admin(session) = None
    /\ up.filename # << >>
    /\ up.is_zip
    /\ n \in DOMAIN up.members
    /\ passes_guard(up.members[n].name)
    /\ tmp # TmpNames
    /\ root_dir' = TRUE
    /\ tmp_path' = mkstemp(tmp)
    /\ tmp' = tmp \cup {mkstemp(tmp)}
    /\ fs' = extracted(fs, up.members, n - 1)
    /\ f_response' = "restore_error"
    /\ archive_out' = << >>
    /\ UNCHANGED <<histVars, authVars, users, gameVars, bcastVars, clock>>

\* restore: every member handled, os.remove(tmp_path), the 'ok' redirect
Restore(up) ==
    /\ ensure_admin(session) = None
    /\ up.filename # << >>
    /\ up.is_zip
    /\ tmp # TmpNames
    /\ root_dir' = TRUE
    /\ tmp_path' = mkstemp(tmp)
    /\ tmp' = (tmp \cup {mkstemp(tmp)}) \ {mkstemp(tmp)}
    /\ fs' = extracted(fs, up.members, Len(up.members))
    /\ f_response' = "restore_ok"
    /\ archive_out' = << >>
    /\ UNCHANGED <<histVars, authVars, users, gameVars, bcastVars, clock>>

\* no filename, bytes that are no zip, or a zip of up to MaxEntries members
Uploads ==
    {Archive(<< >>, FALSE, << >>), Archive(<<"z">>, FALSE, << >>)}
    \cup {Archive(<<"z">>, TRUE, members) :
             members \in UNION {[1..n -> Entries] : n \in 0..MaxEntries}}

FilesNext ==
    \/ Backup
    \/ \E up \in Uploads :
          \/ RestoreMissing(up)
          \/ RestoreBadZip(up)
          \/ \E n \in 1..MaxEntries : RestoreExtractError(up, n)
          \/ Restore(up)

\* the panel is used with uploads present or not yet made
FilesInit ==
    /\ GameInit
    /\ BroadcastIdle
    /\ clock = 0
    /\ fs = << >>
    /\ root_dir \in BOOLEAN
    /\ tmp = {}
    /\ tmp_path = 0
    /\ f_response = "none"
    /\ archive_out = << >>
    /\ HistIdle
    /\ LoggedIn

SpecFiles == FilesInit /\ [][FilesNext]_vars

----------------------------------------------------------------------------
(* SpecUsers: the bot's handlers with the usernames varying and the clock  *)
(* advancing, on a catalog of one track                                     *)

MaxClock == 2

\* time passes
Tick ==
    /\ clock < MaxClock
    /\ clock' = clock + 1
    /\ UNCHANGED <<histVars, authVars, users, gameVars, bcastVars, fs, root_dir, tmp, tmp_path,
                   f_response, archive_out>>

UsersNext == BotNext(Usernames) \/ Tick

UsersInit ==
    /\ users = << >>
    /\ tracks = create_track(<< >>, 1, <<"t">>, 1)
    /\ next_track_id = 2
    /\ used_tracks = [p \in UserIds \X TrackIds |-> 0]
    /\ pc = [k \in Tasks |-> "idle"]
    /\ t_user = [k \in Tasks |-> 0]
    /\ t_track = [k \in Tasks |-> 0]
    /\ returned = [u \in UserIds |-> {}]
    /\ t_overlap = [k \in Tasks |-> FALSE]
    /\ t_dup = [k \in Tasks |-> FALSE]
    /\ BroadcastIdle
    /\ EnvIdle
    /\ HistIdle
    /\ LoggedIn

SpecUsers == UsersInit /\ [][UsersNext]_vars

----------------------------------------------------------------------------
(* SpecCatalog: the catalog pages with every value of the form fields     *)

CatalogPagesNext == CatalogNext(TrackTitles, PointValues)

SpecCatalog == Init /\ [][CatalogPagesNext]_vars

----------------------------------------------------------------------------
(* Removing a broadcast: SpecDelete is SpecBroadcast with the delete button  *)
(* of the list page, pressed once the compose request has been answered     *)

\* foreign-key enforcement is a setting of each connection, off unless the
\* SQLite library was built with it on; the PRAGMA of CREATE_SQL reaches the
\* connection of init_db only, and every function opens its own
ForeignKeysDefault == BOOLEAN

BroadcastIds == {1, 2}

\* delete_broadcast: DELETE FROM broadcasts WHERE id = ?
delete_broadcast(tbl, id) == [b \in DOMAIN tbl \ {id} |-> tbl[b]]

\* ON DELETE CASCADE of broadcast_files, on a connection with the setting fk
on_delete_cascade(rows, id, fk) ==
    IF fk THEN SelectSeq(rows, LAMBDA r : r.broadcast_id # id) ELSE rows

\* broadcasts_delete -> delete_broadcast; the saved files stay on disk
BroadcastsDelete(b, fk) ==
    /\ ensure_admin(session) = None
    /\ b_pc = "done"
    /\ broadcasts' = delete_broadcast(broadcasts, b)
    /\ broadcast_files' = IF b \in DOMAIN broadcasts
                          THEN on_delete_cascade(broadcast_files, b, fk)
                          ELSE broadcast_files
    /\ UNCHANGED <<envVars, histVars, authVars>>
    /\ UNCHANGED <<users, gameVars, disk, b_pc, response, bid, full_text, image_paths,
                   video_paths, file_paths, recipients, idx, i, cap, user_failed,
                   caption_used, sent, failed, calls>>

DeleteNext ==
    \/ BroadcastNext
    \/ \E b \in BroadcastIds, fk \in ForeignKeysDefault : BroadcastsDelete(b, fk)

SpecDelete == BroadcastInit /\ [][DeleteNext]_vars

\* C11: every row of broadcast_files refers to a row of broadcasts; after a
\* broadcast has been removed none of its attachment rows is left.
C11_NoOrphanAttachment ==
    \A j \in DOMAIN broadcast_files : broadcast_files[j].broadcast_id \in DOMAIN broadcasts

----------------------------------------------------------------------------
(* Claims about the broadcast fan-out, under SpecBroadcast *)

InLoop == b_pc \in {"photo", "video", "video_doc", "file", "text", "tally"}

StepCalls(log, step) == SelectSeq(log, LAMBDA c : c.step = step)

Carries(c, ft) == \E m \in DOMAIN c.items : c.items[m].caption = Some(ft)

\* C5: every recipient of the list is processed exactly once, whatever
\* failed for the recipients before: while the loop is at recipient idx the
\* idx - 1 recipients before it have each been counted once, and when the
\* loop is over sent + failed is the number of recipients.
C5_EveryRecipientCounted ==
    /\ InLoop => /\ idx \in 1..Len(recipients)
                 /\ sent + failed = idx - 1
                 /\ recipients = get_all_users(users)
    /\ (b_pc = "stamp" \/ (b_pc = "done" /\ response = "redirect"))
          => sent + failed = Len(recipients)

C5_Witness ==
    /\ b_pc = "done" /\ response = "redirect"
    /\ Len(recipients) = 3 /\ sent = 2 /\ failed = 1

\* the history of one recipient holds an error that was not recovered: the
\* photo step, a file or the lone text failed, or a video failed and the
\* document sent in its place failed too
Unrecovered(log) ==
    \E j \in DOMAIN log :
        /\ ~log[j].ok
        /\ \/ log[j].step \in {"photo", "video_doc", "file", "text"}
           \/ /\ log[j].step = "video"
              /\ (j = Len(log) \/ log[j + 1].step # "video_doc")

\* C6: when a recipient is tallied, failed grows by one if and only if one
\* of the recipient's steps raised an error that was not recovered, and
\* sent grows by one otherwise; a video whose document fallback went through
\* does not count.
C6_TallyStep ==
    b_pc = "tally" =>
        IF Unrecovered(calls)
        THEN failed' = failed + 1 /\ sent' = sent
        ELSE failed' = failed /\ sent' = sent + 1

C6_FailedIffUnrecovered == [][C6_TallyStep]_vars

C6_Witness ==
    /\ b_pc = "tally" /\ ~user_failed
    /\ \E j \in DOMAIN calls : calls[j].step = "video" /\ ~calls[j].ok

\* C7: with a non-empty full_text and at least one saved attachment, the
\* first call of the recipient that went through carries full_text and no
\* other call that went through does; with no attachment full_text goes out
\* as one send_message.
C7_CaptionOnFirstDelivered ==
    (b_pc = "tally" /\ full_text # << >>) =>
        LET oks == {j \in DOMAIN calls : calls[j].ok}
            first == CHOOSE j \in oks : \A m \in oks : j <= m
        IN IF image_paths # << >> \/ video_paths # << >> \/ file_paths # << >>
           THEN oks # {} => {j \in oks : Carries(calls[j], full_text)} = {first}
           ELSE /\ Len(calls) = 1
                /\ calls[1].api = "send_message"
                /\ Carries(calls[1], full_text)

\* the rows of broadcast_files of the running broadcast, in upload order
KindRows(kind) ==
    SelectSeq(broadcast_files, LAMBDA r : r.broadcast_id = bid /\ r.kind = kind)

\* C8: per recipient the photo step makes no call without saved photos, one
\* send_photo for one photo, and for two and more one send_media_group with
\* all photos in upload order, full_text on the first photo only; with
\* photos no send_message goes to the recipient.
C8_PhotoArrangement ==
    b_pc = "tally" =>
        LET rows == KindRows("photo")
            pcs == StepCalls(calls, "photo")
        IN /\ Len(rows) = 0 => pcs = << >>
           /\ Len(rows) = 1 =>
                 /\ Len(pcs) = 1
                 /\ pcs[1].api = "send_photo"
                 /\ Len(pcs[1].items) = 1
                 /\ pcs[1].items[1].path = rows[1].path
           /\ Len(rows) >= 2 =>
                 /\ Len(pcs) = 1
                 /\ pcs[1].api = "send_media_group"
                 /\ Len(pcs[1].items) = Len(rows)
                 /\ \A m \in DOMAIN rows :
                       /\ pcs[1].items[m].path = rows[m].path
                       /\ pcs[1].items[m].caption =
                             IF m = 1 /\ full_text # << >> THEN Some(full_text) ELSE None
           /\ Len(rows) >= 1 => StepCalls(calls, "text") = << >>

C8_Witness ==
    /\ b_pc = "tally" /\ full_text # << >>
    /\ Len(calls) >= 1
    /\ calls[1].api = "send_media_group"
    /\ Len(calls[1].items) >= 2
    /\ calls[1].items[1].path # calls[1].items[2].path
    /\ calls[1].items[1].caption = Some(full_text)
    /\ calls[1].items[2].caption = None

\* C9: every video path gets one send_video; send_document for the same
\* file with the same caption follows if and only if that send_video
\* failed, and only its failure can mark the recipient failed for the
\* video; the videos and files after a failed video are still attempted.
C9_VideoFallback ==
    InLoop =>
        /\ \A j \in DOMAIN calls :
              /\ calls[j].step = "video_doc" =>
                    /\ j > 1
                    /\ calls[j].api = "send_document"
                    /\ calls[j - 1].step = "video" /\ ~calls[j - 1].ok
                    /\ calls[j].items = calls[j - 1].items
              /\ (calls[j].step = "video" /\ ~calls[j].ok) =>
                    IF j = Len(calls) THEN b_pc = "video_doc"
                    ELSE calls[j + 1].step = "video_doc"
        /\ user_failed => \E j \in DOMAIN calls : ~calls[j].ok /\ calls[j].step # "video"
        /\ b_pc = "tally" =>
              LET vcs == StepCalls(calls, "video")
              IN /\ Len(vcs) = Len(video_paths)
                 /\ \A m \in DOMAIN vcs :
                       vcs[m].api = "send_video" /\ vcs[m].items[1].path = video_paths[m]
                 /\ Len(StepCalls(calls, "file")) = Len(file_paths)

C9_Witness ==
    /\ b_pc = "tally"
    /\ Len(calls) = 4
    /\ calls[1].step = "video" /\ ~calls[1].ok
    /\ calls[2].step = "video_doc" /\ ~calls[2].ok
    /\ calls[3].step = "video" /\ calls[3].ok
    /\ calls[4].step = "file"

\* C10: the row of the broadcast has sent_at NULL from create_broadcast
\* until every recipient has been processed, and it is stamped when the
\* handler answers, whatever the outcomes were.
C10_StampedWhenProcessed ==
    /\ (InLoop \/ b_pc = "stamp") =>
          bid \in DOMAIN broadcasts /\ broadcasts[bid].sent_at = NULL
    /\ \A b \in DOMAIN broadcasts :
          broadcasts[b].sent_at # NULL =>
              b = bid /\ b_pc = "done" /\ sent + failed = Len(recipients)
    /\ (b_pc = "done" /\ response = "redirect") => broadcasts[bid].sent_at = Now

C10_Witness ==
    /\ b_pc = "done" /\ response = "redirect"
    /\ sent = 0 /\ failed = Len(recipients) /\ failed >= 2
    /\ broadcasts[bid].sent_at = Now

\* what the validation of the compose form looks at
Blank(s) == \A j \in DOMAIN s : s[j] \in Whitespace

\* the part of s between its first and its last character that is not whitespace
Trimmed(s) ==
    LET keep == {j \in DOMAIN s : s[j] \notin Whitespace}
    IN IF keep = {} THEN << >>
       ELSE SubSeq(s, CHOOSE j \in keep : \A m \in keep : j <= m,
                      CHOOSE j \in keep : \A m \in keep : m <= j)

\* C12: a compose request whose title and body are empty after trimming and
\* whose three upload lists are empty is answered with the validation error
\* and nothing else: no row of broadcasts or broadcast_files, no saved file,
\* no transport call.
C12_EmptyRefused ==
    /\ b_pc = "idle" =>
          \A title \in Titles, text \in Bodies :
              (Blank(title) /\ Blank(text)) =>
                  /\ ENABLED (/\ SubmitEmpty(title, text, << >>, << >>, << >>)
                              /\ response' = "error_empty"
                              /\ UNCHANGED <<broadcasts, broadcast_files, disk, calls,
                                             sent, failed>>)
                  /\ ~ENABLED Submit(title, text, << >>, << >>, << >>)
                  /\ ~ENABLED SubmitNoUsers(title, text, << >>, << >>, << >>)
    /\ response = "error_empty" =>
          /\ b_pc = "done"
          /\ broadcasts = << >> /\ broadcast_files = << >> /\ disk = {}
          /\ calls = << >> /\ sent = 0 /\ failed = 0

C12_Witness ==
    /\ b_pc = "done" /\ response = "error_empty"
    /\ DOMAIN users # {}

\* C13: with no row in users a compose request that passes the validation of
\* its content is answered with the 'no users' error before create_broadcast:
\* broadcasts, broadcast_files and the saved files are unchanged and no
\* transport call is made.
C13_NoRecipientsRefused ==
    /\ (b_pc = "idle" /\ DOMAIN users = {}) =>
          \A title \in Titles, text \in Bodies, np \in 0..1, nv \in 0..1, nf \in 0..1 :
          \A images \in [1..np -> ImageUploads], videos \in [1..nv -> VideoUploads],
             files \in [1..nf -> FileUploads] :
              ~(Blank(title) /\ Blank(text) /\ np + nv + nf = 0) =>
                  /\ ENABLED (/\ SubmitNoUsers(title, text, images, videos, files)
                              /\ response' = "error_no_users"
                              /\ UNCHANGED <<broadcasts, broadcast_files, disk, calls,
                                             sent, failed>>)
                  /\ ~ENABLED Submit(title, text, images, videos, files)
    /\ response = "error_no_users" =>
          /\ b_pc = "done" /\ DOMAIN users = {}
          /\ broadcasts = << >> /\ broadcast_files = << >> /\ disk = {}
          /\ calls = << >> /\ sent = 0 /\ failed = 0
    /\ DOMAIN users = {} => broadcasts = << >>

C13_Witness ==
    /\ b_pc = "done" /\ response = "error_no_users"
    /\ DOMAIN users = {}

\* the text the compose form asks for
ExpectedText(title, text) ==
    IF Trimmed(title) # << >> /\ Trimmed(text) # << >>
    THEN Trimmed(title) \o <<"\n", "\n">> \o Trimmed(text)
    ELSE IF Trimmed(title) # << >> THEN Trimmed(title) ELSE Trimmed(text)

\* C14: the text stored on the row of broadcasts and used by the fan-out is
\* the trimmed title, a blank line and the trimmed body when both are not
\* empty, else the one of the two that is not empty, else the empty string.
C14_StoredText ==
    /\ (b_pc = "idle" /\ DOMAIN users # {}) =>
          \A title \in Titles, text \in Bodies, np \in 0..1 :
          \A images \in [1..np -> ImageUploads] :
              ~(Blank(title) /\ Blank(text) /\ np = 0) =>
                  ENABLED (/\ Submit(title, text, images, << >>, << >>)
                           /\ full_text' = ExpectedText(title, text)
                           /\ broadcasts'[bid'].text = ExpectedText(title, text))
    /\ (InLoop \/ b_pc = "stamp" \/ (b_pc = "done" /\ response = "redirect")) =>
          broadcasts[bid].text = full_text

C14_Witness ==
    /\ b_pc = "done" /\ response = "redirect"
    /\ full_text = <<"T", "\n", "\n", "B">>
    /\ broadcasts[bid].text = <<"T", "\n", "\n", "B">>

\* a path below the directory uploads
UnderRoot(p) == StartsWith(p, Root \o <<"/">>) /\ Len(p) > Len(Root) + 1

\* C15: restore writes only inside uploads: a member whose normalized name
\* is not inside uploads (its first component is not exactly uploads)
\* causes no write, and every member under uploads/ is extracted over
\* whatever was at its path.
C15_WritesInsideRoot ==
    /\ \A p \in DOMAIN fs : UnderRoot(p)
    /\ tmp # TmpNames =>
          \A e \in Entries :
              UnderRoot(e.name) /\ SplitPath(e.name) = NormComps(SplitPath(e.name), << >>) =>
                  ENABLED (/\ Restore(Archive(<<"z">>, TRUE, <<e>>))
                           /\ fs'[e.name] = e.data)

\* C16: the temporary file a restore made is gone when the restore ends,
\* whether the members were extracted, the bytes were no zip or a member
\* could not be extracted; without a filename restore answers 'missing' and
\* touches no file.
C16_TempFileRemoved ==
    /\ f_response \in {"restore_ok", "restore_error"} => tmp_path \notin tmp
    /\ \A up \in Uploads :
          up.filename = << >> =>
              ENABLED (/\ RestoreMissing(up)
                       /\ f_response' = "restore_missing"
                       /\ fs' = fs /\ tmp' = tmp)

\* C17: backup ends without error in every state of the working directory,
\* with uploads missing or empty too; its archive has one entry for each
\* file below uploads, named by the path from the working directory, so
\* none when there is no such file; no file is changed.
C17_BackupArchive ==
    /\ tmp # TmpNames => ENABLED (Backup /\ f_response' = "backup_ok" /\ fs' = fs)
    /\ f_response = "backup_ok" =>
          /\ DOMAIN archive_out = {p \in DOMAIN fs : UnderRoot(p)}
          /\ \A p \in DOMAIN archive_out : archive_out[p] = fs[p]
          /\ (\A p \in DOMAIN fs : ~UnderRoot(p)) => archive_out = << >>

C17_Witness ==
    /\ f_response = "backup_ok"
    /\ Cardinality(DOMAIN archive_out) = 2
    /\ \E p \in DOMAIN fs : p \notin DOMAIN archive_out

\* what a pick at its read can get, and what update_track does to a row
C18_Inv ==
    /\ \A k \in Tasks :
          pc[k] = "read" =>
              \A t \in TrackIds :
                  ENABLED ReadTrack(k, t) <=>
                      /\ t \in DOMAIN tracks
                      /\ tracks[t].is_active
                      /\ used_tracks[<<t_user[k], t>>] = 0
    /\ \A id \in DOMAIN tracks :
          /\ DOMAIN update_track(tracks, id, tracks[id].title, tracks[id].points, FALSE)
                = DOMAIN tracks
          /\ ~update_track(tracks, id, tracks[id].title, tracks[id].points, FALSE)[id].is_active

\* a step that edits rows of tracks without adding or removing one
C18_EditStep ==
    (tracks' # tracks /\ DOMAIN tracks' = DOMAIN tracks) => used_tracks' = used_tracks

\* C18: a pick never reads a track that is inactive at that moment;
\* deactivating a track keeps its row and every used_tracks row, and a
\* track made active again can be read for exactly the users without a
\* used_tracks row for it.
C18_InactiveExcluded == [](C18_Inv) /\ [][C18_EditStep]_vars

C18_Witness ==
    \E k \in Tasks, t \in DOMAIN tracks, u \in UserIds :
        /\ pc[k] = "read" /\ t_user[k] # u
        /\ ~tracks[t].is_active
        /\ used_tracks[<<u, t>>] = 1
        /\ used_tracks[<<t_user[k], t>>] = 0
        /\ \E t2 \in DOMAIN tracks : ENABLED ReadTrack(k, t2)

\* a handler past its add_user acts for a user of the table
C19_Inv == \A k \in Tasks : pc[k] # "idle" => t_user[k] \in DOMAIN users

\* no step removes a row of users or changes its joined_at, and a callback
\* that starts leaves its user in the table
C19_Step ==
    /\ DOMAIN users \subseteq DOMAIN users'
    /\ \A u \in DOMAIN users : users'[u].joined_at = users[u].joined_at
    /\ \A k \in Tasks : (pc[k] = "idle" /\ pc'[k] # "idle") => t_user'[k] \in DOMAIN users'
    /\ \A u \in UserIds, name \in Usernames :
          ENABLED (CmdStart(u, name) /\ u \in DOMAIN users' /\ users'[u].username = name)

C20_TrackRowsValid ==
    \A t \in DOMAIN tracks : tracks[t].points >= 1 /\ tracks[t].title # << >>

----------------------------------------------------------------------------
(* SpecPicks: the bot's handlers on a catalog the panel fills, with the     *)
(* resets and the outcome of the track message recorded in the history      *)
(* variables                                                                *)

\* await clear_used_tracks(cb.from_user.id) has committed: the user's cycle
\* starts again, and the picks of the user that have read and not yet marked
\* started before this reset
ResetObserved(k) ==
    /\ Clear(k)
    /\ delivered' = [delivered EXCEPT ![t_user[k]] = {}]
    /\ t_stale' = [j \in Tasks |-> j \in InFlight(t_user[k]) \/ t_stale[j]]
    /\ fresh' = [fresh EXCEPT ![t_user[k]] = TRUE]

\* await mark_track_used(user_id, _id) has committed
MarkObserved(k) ==
    /\ Mark(k)
    /\ fresh' = IF t_stale[k] THEN fresh ELSE [fresh EXCEPT ![t_user[k]] = FALSE]
    /\ UNCHANGED <<delivered, t_stale>>

\* await message.answer(...): it returns (ok), or it raises and the handler's
\* except branch sends the apology; then cb.answer()
AnswerObserved(k, ok) ==
    /\ Answer(k)
    /\ delivered' = IF pc[k] = "send" /\ ok
                    THEN [delivered EXCEPT ![t_user[k]] = @ \cup {t_track[k]}]
                    ELSE delivered
    /\ t_stale' = [t_stale EXCEPT ![k] = FALSE]
    /\ UNCHANGED fresh

PicksNext ==
    \/ \E k \in Tasks, u \in UserIds, data \in {"go", "next", "restart", "restart_all"} :
          CbBegin(k, u, "ann", data)
    \/ \E k \in Tasks : ResetObserved(k)
    \/ \E k \in Tasks, t \in TrackIds : ReadTrack(k, t)
    \/ \E k \in Tasks : ReadNone(k)
    \/ \E k \in Tasks : MarkObserved(k)
    \/ \E k \in Tasks, ok \in BOOLEAN : AnswerObserved(k, ok)
    \/ AddTrack(<<"t">>, 1)

SpecPicks == Init /\ [][PicksNext]_vars

\* C21: once the handler that marked it has finished, a row (u, t) of
\* used_tracks stands for a track whose message reached u since u's last
\* reset: no track leaves a user's cycle unseen, also when the send raised.
C21_MarkedOnlyIfDelivered ==
    \A u \in UserIds, t \in TrackIds :
        (/\ used_tracks[<<u, t>>] > 0
         /\ \A k \in Tasks : ~(pc[k] = "send" /\ t_user[k] = u /\ t_track[k] = t))
        => t \in delivered[u]

\* C22: from the moment a reset of u has completed until a pick of u that
\* read after it has marked, u has no row in used_tracks.
C22_EmptyAfterReset ==
    \A u \in UserIds :
        fresh[u] => \A t \in TrackIds : used_tracks[<<u, t>>] = 0

\* the items of the recipient's calls that went through and carry ft
DeliveredWith(log, ft) ==
    UNION {{<<j, m>> : m \in {n \in DOMAIN log[j].items : log[j].items[n].caption = Some(ft)}} :
           j \in {n \in DOMAIN log : log[n].ok}}

\* C23: whatever calls raise, at most one item that went through carries
\* full_text for a recipient, and once a call carrying it has gone through no
\* later call for that recipient carries it, as a caption or as send_message.
C23_CaptionAtMostOnce ==
    InLoop =>
        /\ Cardinality(DeliveredWith(calls, full_text)) <= 1
        /\ \A j \in DOMAIN calls :
              (calls[j].ok /\ Carries(calls[j], full_text)) =>
                  \A m \in (j + 1)..Len(calls) : ~Carries(calls[m], full_text)

\* a photo went out with the text, a video and a file followed without it
C23_Witness ==
    /\ b_pc = "tally"
    /\ Len(calls) = 3
    /\ calls[1].ok /\ Carries(calls[1], full_text)
    /\ calls[2].step = "video" /\ calls[2].ok
    /\ calls[3].step = "file" /\ ~calls[3].ok

\* C24: a recipient is counted in sent only when at least one transport
\* call for that recipient went through.
C24_SentMeansDelivered ==
    (b_pc = "tally" /\ ~user_failed) => \E j \in DOMAIN calls : calls[j].ok

\* the rows of used_tracks of the users other than u are the same in both
SameForOthers(used, after, u) ==
    after = used \/ \A p \in DOMAIN used : p[1] # u => after[p] = used[p]

\* C25: a pick of u (its read and its mark) and a reset of u leave the rows of
\* used_tracks of every other user and the catalog as they were; removing a
\* track removes its row of tracks and nothing else: the other tracks and
\* every row of used_tracks, those of the removed track included, stay.
C25_FrameStep ==
    /\ pc' # pc =>
          \A k \in Tasks :
              \/ pc[k] = "clear" /\ pc'[k] = "read"
              \/ pc[k] = "read" /\ pc'[k] \in {"mark", "congrats"}
              \/ pc[k] = "mark" /\ pc'[k] = "send"
              => /\ SameForOthers(used_tracks, used_tracks', t_user[k])
                 /\ DOMAIN used_tracks' = DOMAIN used_tracks
                 /\ tracks' = tracks
    /\ DOMAIN tracks' # DOMAIN tracks =>
          \A t \in DOMAIN tracks \ DOMAIN tracks' :
              /\ used_tracks' = used_tracks
              /\ tracks' = [r \in DOMAIN tracks \ {t} |-> tracks[r]]

C25_OnlyOwnRows == [][C25_FrameStep]_vars

\* a removed track still has its row of used_tracks for user 2 while a pick
\* of user 1 has just marked
C25_Witness ==
    \E t \in TrackIds, k \in Tasks :
        /\ t < next_track_id /\ t \notin DOMAIN tracks
        /\ used_tracks[<<2, t>>] > 0
        /\ pc[k] = "send" /\ t_user[k] = 1
        /\ used_tracks[<<1, t_track[k]>>] > 0

----------------------------------------------------------------------------
(* SpecAdmin: one browser session against the panel: login, logout, and the *)
(* admin pages requested with the session as it is                          *)

Passwords == {<<"p">>, <<"q">>}

\* the routes that start with ensure_admin
AdminOps == {"index", "add_track", "edit_track", "remove_track", "broadcasts_page",
             "broadcasts_delete", "broadcasts_new_form", "broadcasts_new_submit",
             "backup", "restore"}

Answered(op, password, resp) == [op |-> op, password |-> password, response |-> resp]

\* login_post
LoginPost(password) ==
    /\ IF get_admin_password(admin_password) = Raises
       THEN /\ auth' = Answered("login", password, "error_500")
            /\ session' = session
       ELSE IF password # get_admin_password(admin_password)
       THEN /\ auth' = Answered("login", password, "login.html")
            /\ session' = session
       ELSE /\ auth' = Answered("login", password, "/admin_web")
            /\ session' = {kv \in session : kv[1] # "is_admin"} \cup {<<"is_admin", TRUE>>}
    /\ UNCHANGED <<users, gameVars, bcastVars, envVars, histVars, admin_password>>

\* logout: request.session.clear()
Logout ==
    /\ session' = {}
    /\ auth' = Answered("logout", << >>, "/admin_web/login")
    /\ UNCHANGED <<users, gameVars, bcastVars, envVars, histVars, admin_password>>

\* a route that starts with ensure_admin, requested when it returns a response
Refused(op) ==
    /\ ensure_admin(session) # None
    /\ auth' = Answered(op, << >>, ensure_admin(session)[1])
    /\ UNCHANGED <<users, gameVars, bcastVars, envVars, histVars, session, admin_password>>

\* the archives tried in this specification: none, and one with a member
AdminUploads == {Archive(<< >>, FALSE, << >>), Archive(<<"z">>, TRUE, <<Entry(Root \o <<"/", "a">>, "x")>>)}

AdminNext ==
    \/ \E password \in Passwords : LoginPost(password)
    \/ Logout
    \/ \E op \in AdminOps : Refused(op)
    \/ CatalogNext({<<"t">>}, {1})
    \/ Submit(<<"T">>, << >>, << >>, << >>, << >>)
    \/ \E ok \in BOOLEAN : TextStep(ok)
    \/ Tally
    \/ Stamp
    \/ \E b \in BroadcastIds, fk \in ForeignKeysDefault : BroadcastsDelete(b, fk)
    \/ Backup
    \/ \E up \in AdminUploads : RestoreMissing(up) \/ Restore(up)

\* one user has started the bot; the browser has no session yet; the
\* password is configured or not
AdminInit ==
    /\ tracks = << >>
    /\ next_track_id = 1
    /\ used_tracks = [p \in UserIds \X TrackIds |-> 0]
    /\ pc = [k \in Tasks |-> "idle"]
    /\ t_user = [k \in Tasks |-> 0]
    /\ t_track = [k \in Tasks |-> 0]
    /\ returned = [u \in UserIds |-> {}]
    /\ t_overlap = [k \in Tasks |-> FALSE]
    /\ t_dup = [k \in Tasks |-> FALSE]
    /\ BroadcastIdle
    /\ EnvIdle
    /\ HistIdle
    /\ users = add_user(<< >>, 1, "ann", 0)
    /\ session = {}
    /\ admin_password \in {<<"p">>, << >>}
    /\ auth = Answered("none", << >>, "none")

SpecAdmin == AdminInit /\ [][AdminNext]_vars

\* C26: on a session without the is_admin flag every route of the panel
\* answers with the redirect to the login page and changes nothing: the
\* store, the files and the transport log stay as they are (only a broadcast
\* admitted before the logout goes on). The flag appears only through a
\* login with the configured password, and a logout leaves the session
\* without it.
C26_Inv ==
    /\ ensure_admin(session) # None =>
          \A op \in AdminOps :
              ENABLED (Refused(op) /\ auth'.response = "/admin_web/login")
    /\ \A password \in Passwords :
          ENABLED (LoginPost(password) /\ ensure_admin(session') = None)
          <=> \/ ensure_admin(session) = None
              \/ admin_password # << >> /\ password = admin_password
    /\ ENABLED Logout
    /\ ~ENABLED (Logout /\ ensure_admin(session') = None)

C26_Step ==
    /\ ensure_admin(session) # None =>
          \/ UNCHANGED <<users, gameVars, bcastVars, envVars>>
          \/ /\ b_pc \notin {"idle", "done"}
             /\ UNCHANGED <<users, gameVars, envVars, disk, broadcast_files>>
    /\ (ensure_admin(session) # None /\ ensure_admin(session') = None) =>
          /\ admin_password # << >>
          /\ auth' = Answered("login", admin_password, "/admin_web")

C26_AdminOnly == [](C26_Inv) /\ [][C26_Step]_vars

\* after a logout, with a track in the catalog and a broadcast stored, the
\* request to remove the track was answered with the redirect
C26_Witness ==
    /\ ensure_admin(session) # None
    /\ auth = Answered("remove_track", << >>, "/admin_web/login")
    /\ tracks # << >>
    /\ broadcasts # << >>

============================================================================
